---- MODULE Spec2Model ----
(***************************************************************************)
(* COSE_Key data model and codec (coset, src/key/mod.rs) together with the *)
(* IANA registries it consults (src/iana/mod.rs).                          *)
(*                                                                         *)
(* A Value of the generic CBOR type is a record whose kind names the       *)
(* variant and whose other fields hold that variant's payload.  A registry *)
(* is the sequence of <<name, value>> pairs of its iana_registry! table.   *)
(* declaration order.  Option<T> is a sequence of length 0 or 1, Result is *)
(* [ok |-> TRUE, val] or [ok |-> FALSE, err |-> <<got, want>>].            *)
(***************************************************************************)
EXTENDS Integers, Sequences, FiniteSets, TLC

VARIABLES
    phase,    \* position of the caller: which operation ran last
    key,      \* the CoseKey held by the CoseKeyBuilder / the caller
    wire,     \* the Result of the last to_cbor_value
    input,    \* the cbor Value last handed to from_cbor_value
    res,      \* the Result of the last from_cbor_value
    nparam,   \* number of CoseKeyBuilder::param calls made on the builder
    probe     \* the last is_private query and its answer

vars == <<phase, key, wire, input, res, nparam, probe>>

----------------------------------------------------------------------------
(* cbor::values::Value *)

Value(kind, int, text, bytes, items, entries) ==
    [kind |-> kind, int |-> int, text |-> text, bytes |-> bytes, items |-> items,
     entries |-> entries]

Unsigned(n)   == Value("Unsigned",   n, "", <<>>, <<>>, <<>>)
Negative(n)   == Value("Negative",   n, "", <<>>, <<>>, <<>>)
ByteString(b) == Value("ByteString", 0, "", b,    <<>>, <<>>)
TextString(t) == Value("TextString", 0, t,  <<>>, <<>>, <<>>)
Array(a)      == Value("Array",      0, "", <<>>, a,    <<>>)
Map(m)        == Value("Map",        0, "", <<>>, <<>>, m)
Simple(s)     == Value("Simple",     0, s,  <<>>, <<>>, <<>>)

\* Value's PartialEq: same variant, same payload.
ValueEq(a, b) == a = b

\* An integer as a Value: the non-negative ones are Unsigned, the others Negative.
IntValue(i) == IF i >= 0 THEN Unsigned(i) ELSE Negative(i)

Ok(v)          == [ok |-> TRUE, val |-> v]
UnexpectedType(got, want) == [ok |-> FALSE, err |-> <<got, want>>]

\* util::cbor_type_error: the error names the shape found and the shape wanted.
TypeName(v) ==
    CASE v.kind = "Unsigned"   -> "uint"
      [] v.kind = "Negative"   -> "nint"
      [] v.kind = "ByteString" -> "bstr"
      [] v.kind = "TextString" -> "tstr"
      [] v.kind = "Array"      -> "array"
      [] v.kind = "Map"        -> "map"
      [] OTHER                 -> "simple"

cbor_type_error(v, want) == UnexpectedType(TypeName(v), want)

----------------------------------------------------------------------------
(* iana registries: the iana_registry! tables *)

iana_HeaderParameter ==
    << <<"Reserved", 0>>, <<"Alg", 1>>, <<"Crit", 2>>, <<"ContentType", 3>>,
       <<"Kid", 4>>, <<"Iv", 5>>, <<"PartialIv", 6>>, <<"CounterSignature", 7>>,
       <<"CounterSignature0", 9>>, <<"KidContext", 10>>, <<"X5Bag", 32>>, <<"X5Chain", 33>>,
       <<"X5T", 34>>, <<"X5U", 35>>, <<"CuphNonce", 256>>, <<"CuphOwnerPubKey", 257>> >>

iana_Algorithm ==
    << <<"RS1", -65535>>, <<"WalnutDSA", -260>>, <<"RS512", -259>>, <<"RS384", -258>>,
       <<"RS256", -257>>, <<"ES256K", -47>>, <<"HSS_LMS", -46>>, <<"SHAKE256", -45>>,
       <<"SHA_512", -44>>, <<"SHA_384", -43>>, <<"RSAES_OAEP_SHA_512", -42>>, <<"RSAES_OAEP_SHA_256", -41>>,
       <<"RSAES_OAEP_RFC_8017_default", -40>>, <<"PS512", -39>>, <<"PS384", -38>>, <<"PS256", -37>>,
       <<"ES512", -36>>, <<"ES384", -35>>, <<"ECDH_SS_A256KW", -34>>, <<"ECDH_SS_A192KW", -33>>,
       <<"ECDH_SS_A128KW", -32>>, <<"ECDH_ES_A256KW", -31>>, <<"ECDH_ES_A192KW", -30>>, <<"ECDH_ES_A128KW", -29>>,
       <<"ECDH_SS_HKDF_512", -28>>, <<"ECDH_SS_HKDF_256", -27>>, <<"ECDH_ES_HKDF_512", -26>>, <<"ECDH_ES_HKDF_256", -25>>,
       <<"SHAKE128", -18>>, <<"SHA_512_256", -17>>, <<"SHA_256", -16>>, <<"SHA_256_64", -15>>,
       <<"SHA_1", -14>>, <<"Direct_HKDF_AES_256", -13>>, <<"Direct_HKDF_AES_128", -12>>, <<"Direct_HKDF_SHA_512", -11>>,
       <<"Direct_HKDF_SHA_256", -10>>, <<"EdDSA", -8>>, <<"ES256", -7>>, <<"Direct", -6>>,
       <<"A256KW", -5>>, <<"A192KW", -4>>, <<"A128KW", -3>>, <<"A128GCM", 1>>,
       <<"A192GCM", 2>>, <<"A256GCM", 3>>, <<"HMAC_256_64", 4>>, <<"HMAC_256_256", 5>>,
       <<"HMAC_384_384", 6>>, <<"HMAC_512_512", 7>>, <<"AES_CCM_16_64_128", 10>>, <<"AES_CCM_16_64_256", 11>>,
       <<"AES_CCM_64_64_128", 12>>, <<"AES_CCM_64_64_256", 13>>, <<"AES_MAC_128_64", 14>>, <<"AES_MAC_256_64", 15>>,
       <<"ChaCha20Poly1305", 24>>, <<"AES_MAC_128_128", 25>>, <<"AES_MAC_256_128", 26>>, <<"AES_CCM_16_128_128", 30>>,
       <<"AES_CCM_16_128_256", 31>>, <<"AES_CCM_64_128_128", 32>>, <<"AES_CCM_64_128_256", 33>>, <<"IV_GENERATION", 34>> >>

iana_KeyParameter ==
    << <<"Reserved", 0>>, <<"Kty", 1>>, <<"Kid", 2>>, <<"Alg", 3>>,
       <<"KeyOps", 4>>, <<"BaseIv", 5>> >>

iana_Ec2KeyParameter ==
    << <<"Crv", -1>>, <<"X", -2>>, <<"Y", -3>>, <<"D", -4>> >>

iana_SymmetricKeyParameter ==
    << <<"K", -1>> >>

iana_KeyType ==
    << <<"Reserved", 0>>, <<"OKP", 1>>, <<"EC2", 2>>, <<"RSA", 3>>,
       <<"Symmetric", 4>>, <<"HSS_LMS", 5>>, <<"WalnutDSA", 6>> >>

iana_EllipticCurve ==
    << <<"Reserved", 0>>, <<"P_256", 1>>, <<"P_384", 2>>, <<"P_521", 3>>,
       <<"X25519", 4>>, <<"X448", 5>>, <<"Ed25519", 6>>, <<"Ed448", 7>>,
       <<"Secp256k1", 8>> >>

iana_KeyOperation ==
    << <<"Sign", 1>>, <<"Verify", 2>>, <<"Encrypt", 3>>, <<"Decrypt", 4>>,
       <<"WrapKey", 5>>, <<"UnwrapKey", 6>>, <<"DeriveKey", 7>>, <<"DeriveBits", 8>>,
       <<"MacCreate", 9>>, <<"MacVerify", 10>> >>

iana_HeaderAlgorithmParameter ==
    << <<"PartyVOther", -26>>, <<"PartyVNonce", -25>>, <<"PartyVIdentity", -24>>,
       <<"PartyUOther", -23>>, <<"PartyUNonce", -22>>, <<"PartyUIdentity", -21>>,
       <<"Salt", -20>>, <<"StaticKeyId", -3>>, <<"StaticKey", -2>>,
       <<"EphemeralKey", -1>> >>

iana_OkpKeyParameter ==
    << <<"Crv", -1>>, <<"X", -2>>, <<"D", -4>> >>

iana_RsaKeyParameter ==
    << <<"N", -1>>, <<"E", -2>>, <<"D", -3>>,
       <<"P", -4>>, <<"Q", -5>>, <<"DP", -6>>,
       <<"DQ", -7>>, <<"QInv", -8>>, <<"Other", -9>>,
       <<"RI", -10>>, <<"DI", -11>>, <<"TI", -12>> >>

iana_HssLmsKeyParameter ==
    << <<"Pub", -1>> >>

iana_WalnutDsaKeyParameter ==
    << <<"N", -1>>, <<"Q", -2>>, <<"TValues", -3>>,
       <<"Matrix1", -4>>, <<"Permutation1", -5>>, <<"Matrix2", -6>> >>

iana_CborTag ==
    << <<"CoseEncrypt0", 16>>, <<"CoseMac0", 17>>, <<"CoseSign1", 18>>,
       <<"Cwt", 61>>, <<"CoseEncrypt", 96>>, <<"CoseMac", 97>>,
       <<"CoseSign", 98>> >>

iana_CoapContentFormat ==
    << <<"TextPlainUtf8", 0>>, <<"CoseEncrypt0", 16>>, <<"CoseMac0", 17>>,
       <<"CoseSign1", 18>>, <<"LinkFormat", 40>>, <<"Xml", 41>>,
       <<"OctetStream", 42>>, <<"Exi", 47>>, <<"Json", 50>>,
       <<"JsonPatchJson", 51>>, <<"MergePatchJson", 52>>, <<"Cbor", 60>>,
       <<"Cwt", 61>>, <<"MultipartCore", 62>>, <<"CborSeq", 63>>,
       <<"CoseEncrypt", 96>>, <<"CoseMac", 97>>, <<"CoseSign", 98>>,
       <<"CoseKey", 101>>, <<"CoseKeySet", 102>>, <<"SenmlJson", 110>>,
       <<"SensmlJson", 111>>, <<"SenmlCbor", 112>>, <<"SensmlCbor", 113>>,
       <<"SenmlExi", 114>>, <<"SensmlExi", 115>>, <<"CoapGroupJson", 256>>,
       <<"DotsCbor", 271>>, <<"Pkcs7MimeSmimeTypeServerGeneratedKey", 280>>, <<"Pkcs7MimeSmimeTypeCertsOnly", 281>>,
       <<"Pkcs7MimeSmimeTypeCmcRequest", 282>>, <<"Pkcs7MimeSmimeTypeCmcResponse", 283>>, <<"Pkcs8", 284>>,
       <<"Csrattrs", 285>>, <<"Pkcs10", 286>>, <<"PkixCert", 287>>,
       <<"SenmlXml", 310>>, <<"SensmlXml", 311>>, <<"SenmlEtchJson", 320>>,
       <<"SenmlEtchCbor", 322>>, <<"TdJson", 432>>, <<"VndOcfCbor", 10000>>,
       <<"Oscore", 10001>>, <<"JsonDeflate", 11050>>, <<"CborDeflate", 11060>>,
       <<"VndOmaLwm2mTlv", 11542>>, <<"VndOmaLwm2mJson", 11543>>, <<"VndOmaLwm2mCbor", 11544>> >>

\* EnumI128::to_i128: `*self as i128`, the discriminant the table gives the name.
to_i128(registry, name) ==
    LET i == CHOOSE j \in 1..Len(registry) : registry[j][1] = name
    IN  registry[i][2]

\* from_i128 with the argument taken through an unsigned cast: no negative
\* integer matches.
from_i128_unsigned(registry, i) ==
    LET hits == {j \in 1..Len(registry) : registry[j][2] = i /\ i >= 0}
    IN  IF hits = {} THEN <<>>
        ELSE LET first == CHOOSE j \in hits : \A h \in hits : j <= h
             IN  <<registry[first][1]>>

\* EnumI128::from_i128: the match arms are tried in table order, `_ => None` last.
from_i128(registry, i) ==
    LET hits == {j \in 1..Len(registry) : registry[j][2] = i}
    IN  IF hits = {} THEN <<>>
        ELSE LET first == CHOOSE j \in hits : \A h \in hits : j <= h
             IN  <<registry[first][1]>>

HEADER_PARAMETER_PRIVATE_USE_MAX == -65536
ALGORITHM_PRIVATE_USE_MAX == -65536
ELLIPTIC_CURVE_PRIVATE_USE_MAX == -65536

\* The comparison taken as inclusive of the threshold.
Algorithm_is_private_inclusive(i) == i <= ALGORITHM_PRIVATE_USE_MAX

HeaderParameter_is_private(i) == i < HEADER_PARAMETER_PRIVATE_USE_MAX
Algorithm_is_private(i) == i < ALGORITHM_PRIVATE_USE_MAX
EllipticCurve_is_private(i) == i < ELLIPTIC_CURVE_PRIVATE_USE_MAX

----------------------------------------------------------------------------
(* RegisteredLabel<T> and Label *)

\* Either a constant of the registry, or the raw value found on the wire.
Assigned(name) == [tag |-> "Assigned", name |-> name, raw |-> Simple("")]
Other(v)       == [tag |-> "Other",    name |-> "",   raw |-> v]

IsInt(value) == value.kind \in {"Unsigned", "Negative"}

\* decode: the known variant when the registry has the integer, else the raw
\* value unchanged as the other variant; this never fails.
RegisteredLabel_from_cbor_value(registry, value) ==
    LET c == IF IsInt(value) THEN from_i128(registry, value.int) ELSE <<>>
    IN  IF Len(c) > 0 THEN Ok(Assigned(c[1])) ELSE Ok(Other(value))

\* encode: the registry integer of the known variant, the stored raw value of
\* the other variant.
RegisteredLabel_to_cbor_value(registry, l) ==
    IF l.tag = "Assigned" THEN IntValue(to_i128(registry, l.name)) ELSE l.raw

Label_Int(i)  == [tag |-> "Int",  int |-> i, text |-> ""]
Label_Text(t) == [tag |-> "Text", int |-> 0, text |-> t]

Label_from_cbor_value(value) ==
    CASE value.kind \in {"Unsigned", "Negative"} -> Ok(Label_Int(value.int))
      [] value.kind = "TextString" -> Ok(Label_Text(value.text))
      [] OTHER -> cbor_type_error(value, "int/tstr")

Label_to_cbor_value(l) ==
    IF l.tag = "Int" THEN IntValue(l.int) ELSE TextString(l.text)

\* Ord of an extensible field, over the value it has on the wire: integers by
\* value, every integer before every text, texts by their place in TextOrder.
TextOrder == <<"a", "b">>

TextRank(t) == CHOOSE j \in 1..Len(TextOrder) : TextOrder[j] = t

RegisteredLabel_lt(registry, a, b) ==
    LET wa == RegisteredLabel_to_cbor_value(registry, a)
        wb == RegisteredLabel_to_cbor_value(registry, b)
    IN  CASE IsInt(wa) /\ IsInt(wb)   -> wa.int < wb.int
          [] IsInt(wa) /\ ~IsInt(wb)  -> TRUE
          [] ~IsInt(wa) /\ IsInt(wb)  -> FALSE
          [] OTHER                    -> TextRank(wa.text) < TextRank(wb.text)

----------------------------------------------------------------------------
(* CoseKey *)

CoseKey_default ==
    [kty     |-> Assigned("Reserved"),
     key_id  |-> <<>>,
     alg     |-> <<>>,
     key_ops |-> {},
     base_iv |-> <<>>,
     params  |-> <<>>]

KTY     == Unsigned(to_i128(iana_KeyParameter, "Kty"))
KID     == Unsigned(to_i128(iana_KeyParameter, "Kid"))
ALG     == Unsigned(to_i128(iana_KeyParameter, "Alg"))
KEY_OPS == Unsigned(to_i128(iana_KeyParameter, "KeyOps"))
BASE_IV == Unsigned(to_i128(iana_KeyParameter, "BaseIv"))

\* The KTY arm with a wrapper that refuses integers the registry does not have.
KtyArm_rejects_unregistered(k, value) ==
    LET r == RegisteredLabel_from_cbor_value(iana_KeyType, value)
    IN  IF r.val.tag = "Assigned" \/ ~IsInt(value)
        THEN Ok([k EXCEPT !.kty = r.val])
        ELSE UnexpectedType("unregistered value", "registered value")

\* The KID arm keeping the first key_id it stored.
KidArm_first_wins(k, value) ==
    IF value.kind = "ByteString"
    THEN IF Len(value.bytes) = 0
         THEN UnexpectedType("empty bstr", "non-empty bstr")
         ELSE IF Len(k.key_id) = 0 THEN Ok([k EXCEPT !.key_id = value.bytes]) ELSE Ok(k)
    ELSE cbor_type_error(value, "bstr value")

\* x if x == KTY => key.kty = KeyType::from_cbor_value(value)?
KtyArm(k, value) ==
    LET r == RegisteredLabel_from_cbor_value(iana_KeyType, value)
    IN  IF r.ok THEN Ok([k EXCEPT !.kty = r.val]) ELSE r

\* The KID arm without the is_empty check.
KidArm_accepts_empty(k, value) ==
    IF value.kind = "ByteString"
    THEN Ok([k EXCEPT !.key_id = value.bytes])
    ELSE cbor_type_error(value, "bstr value")

\* x if x == KID => ...
KidArm(k, value) ==
    IF value.kind = "ByteString"
    THEN IF Len(value.bytes) = 0
         THEN UnexpectedType("empty bstr", "non-empty bstr")
         ELSE Ok([k EXCEPT !.key_id = value.bytes])
    ELSE cbor_type_error(value, "bstr value")

\* x if x == ALG => key.alg = Some(Algorithm::from_cbor_value(value)?)
AlgArm(k, value) ==
    LET r == RegisteredLabel_from_cbor_value(iana_Algorithm, value)
    IN  IF r.ok THEN Ok([k EXCEPT !.alg = <<r.val>>]) ELSE r

\* The loop with the result of insert ignored.
RECURSIVE KeyOpsInsertAll_unchecked(_, _)
KeyOpsInsertAll_unchecked(k, arr) ==
    IF Len(arr) = 0 THEN Ok(k)
    ELSE LET r == RegisteredLabel_from_cbor_value(iana_KeyOperation, Head(arr))
         IN  KeyOpsInsertAll_unchecked([k EXCEPT !.key_ops = @ \cup {r.val}], Tail(arr))

\* for key_op in key_ops.into_iter() { if !key.key_ops.insert(...?) { return Err } }
RECURSIVE KeyOpsInsertAll(_, _)
KeyOpsInsertAll(k, arr) ==
    IF Len(arr) = 0 THEN Ok(k)
    ELSE LET r == RegisteredLabel_from_cbor_value(iana_KeyOperation, Head(arr))
         IN  IF ~r.ok THEN r
             ELSE IF r.val \in k.key_ops
                  THEN UnexpectedType("repeated array entry", "unique array label")
                  ELSE KeyOpsInsertAll([k EXCEPT !.key_ops = @ \cup {r.val}],
                                       Tail(arr))

\* The KEY_OPS arm with a value of another shape skipped.
KeyOpsArm_skips_other_shapes(k, value) ==
    IF value.kind = "Array"
    THEN LET r == KeyOpsInsertAll(k, value.items)
         IN  IF ~r.ok THEN r
             ELSE IF r.val.key_ops = {}
                  THEN UnexpectedType("empty array", "non-empty array")
                  ELSE r
    ELSE Ok(k)

\* x if x == KEY_OPS => ...
KeyOpsArm(k, value) ==
    IF value.kind = "Array"
    THEN LET r == KeyOpsInsertAll(k, value.items)
         IN  IF ~r.ok THEN r
             ELSE IF r.val.key_ops = {}
                  THEN UnexpectedType("empty array", "non-empty array")
                  ELSE r
    ELSE cbor_type_error(value, "array value")

\* The BASE_IV arm as a copy of the KID arm that still stores to key_id.
BaseIvArm_stores_key_id(k, value) ==
    IF value.kind = "ByteString"
    THEN IF Len(value.bytes) = 0
         THEN UnexpectedType("empty bstr", "non-empty bstr")
         ELSE Ok([k EXCEPT !.key_id = value.bytes])
    ELSE cbor_type_error(value, "bstr value")

\* x if x == BASE_IV => ...
BaseIvArm(k, value) ==
    IF value.kind = "ByteString"
    THEN IF Len(value.bytes) = 0
         THEN UnexpectedType("empty bstr", "non-empty bstr")
         ELSE Ok([k EXCEPT !.base_iv = value.bytes])
    ELSE cbor_type_error(value, "bstr value")

\* l => { let label = Label::from_cbor_value(l)?; key.params.push((label, value)); }
ParamArm(k, label, value) ==
    LET r == Label_from_cbor_value(label)
    IN  IF r.ok THEN Ok([k EXCEPT !.params = Append(@, <<r.val, value>>)]) ELSE r

\* The match with the BASE_IV arm missing: label 5 falls to the last arm.
MatchLabel_without_base_iv(k, label, value) ==
    CASE ValueEq(label, KTY)     -> KtyArm(k, value)
      [] ValueEq(label, KID)     -> KidArm(k, value)
      [] ValueEq(label, ALG)     -> AlgArm(k, value)
      [] ValueEq(label, KEY_OPS) -> KeyOpsArm(k, value)
      [] OTHER                   -> ParamArm(k, label, value)

\* The body of the loop over the map: the match on the label.
MatchLabel(k, label, value) ==
    CASE ValueEq(label, KTY)     -> KtyArm(k, value)
      [] ValueEq(label, KID)     -> KidArm(k, value)
      [] ValueEq(label, ALG)     -> AlgArm(k, value)
      [] ValueEq(label, KEY_OPS) -> KeyOpsArm(k, value)
      [] ValueEq(label, BASE_IV) -> BaseIvArm(k, value)
      [] OTHER                   -> ParamArm(k, label, value)

\* The loop carried on past a failing entry, the last error being returned.
RECURSIVE DecodeEntries_last_error(_, _)
DecodeEntries_last_error(k, m) ==
    IF Len(m) = 0 THEN Ok(k)
    ELSE LET r    == MatchLabel(k, Head(m)[1], Head(m)[2])
             rest == DecodeEntries_last_error(IF r.ok THEN r.val ELSE k, Tail(m))
         IN  IF r.ok \/ ~rest.ok THEN rest ELSE r

\* for (label, value) in m.into_iter() { ... }: the first Err returns.
RECURSIVE DecodeEntries(_, _)
DecodeEntries(k, m) ==
    IF Len(m) = 0 THEN Ok(k)
    ELSE LET r == MatchLabel(k, Head(m)[1], Head(m)[2])
         IN  IF r.ok THEN DecodeEntries(r.val, Tail(m)) ELSE r

\* The post-check left out.
CheckKty_skipped(k) == Ok(k)

\* Check that key type has been set.
CheckKty(k) ==
    IF k.kty = Assigned("Reserved")
    THEN UnexpectedType("no kty label", "mandatory kty label")
    ELSE Ok(k)

CoseKey_from_cbor_value(value) ==
    IF value.kind # "Map" THEN cbor_type_error(value, "map")
    ELSE LET r == DecodeEntries(CoseKey_default, value.entries)
         IN  IF r.ok THEN CheckKty(r.val) ELSE r

\* The set walked from its greatest element down.
RECURSIVE BTreeSet_iter_rev(_)
BTreeSet_iter_rev(s) ==
    IF s = {} THEN <<>>
    ELSE LET greatest == CHOOSE a \in s :
                            \A b \in s \ {a} : RegisteredLabel_lt(iana_KeyOperation, b, a)
         IN  <<greatest>> \o BTreeSet_iter_rev(s \ {greatest})

\* BTreeSet iteration: ascending in the element's Ord.
RECURSIVE BTreeSet_iter(_)
BTreeSet_iter(s) ==
    IF s = {} THEN <<>>
    ELSE LET least == CHOOSE a \in s :
                          \A b \in s \ {a} : RegisteredLabel_lt(iana_KeyOperation, a, b)
         IN  <<least>> \o BTreeSet_iter(s \ {least})

KeyOpsArray(ops) ==
    [i \in 1..Len(ops) |-> RegisteredLabel_to_cbor_value(iana_KeyOperation, ops[i])]

ParamEntries(params) ==
    [i \in 1..Len(params) |-> <<Label_to_cbor_value(params[i][1]), params[i][2]>>]

\* Encode that pushes base_iv before key_ops.
CoseKey_to_cbor_value_swapped(k) ==
    LET kty     == <<KTY, RegisteredLabel_to_cbor_value(iana_KeyType, k.kty)>>
        key_id  == IF Len(k.key_id) # 0 THEN << <<KID, ByteString(k.key_id)>> >> ELSE <<>>
        alg     == IF Len(k.alg) # 0
                   THEN << <<ALG, RegisteredLabel_to_cbor_value(iana_Algorithm, k.alg[1])>> >>
                   ELSE <<>>
        key_ops == IF k.key_ops # {}
                   THEN << <<KEY_OPS, Array(KeyOpsArray(BTreeSet_iter(k.key_ops)))>> >>
                   ELSE <<>>
        base_iv == IF Len(k.base_iv) # 0 THEN << <<BASE_IV, ByteString(k.base_iv)>> >> ELSE <<>>
    IN  Ok(Map(<<kty>> \o key_id \o alg \o base_iv \o key_ops \o ParamEntries(k.params)))

\* Encode that leaves label 1 out when kty is the Reserved default.
CoseKey_to_cbor_value_skips_reserved(k) ==
    LET kty     == IF k.kty # Assigned("Reserved")
                   THEN << <<KTY, RegisteredLabel_to_cbor_value(iana_KeyType, k.kty)>> >>
                   ELSE <<>>
        key_id  == IF Len(k.key_id) # 0 THEN << <<KID, ByteString(k.key_id)>> >> ELSE <<>>
        alg     == IF Len(k.alg) # 0
                   THEN << <<ALG, RegisteredLabel_to_cbor_value(iana_Algorithm, k.alg[1])>> >>
                   ELSE <<>>
        key_ops == IF k.key_ops # {}
                   THEN << <<KEY_OPS, Array(KeyOpsArray(BTreeSet_iter(k.key_ops)))>> >>
                   ELSE <<>>
        base_iv == IF Len(k.base_iv) # 0 THEN << <<BASE_IV, ByteString(k.base_iv)>> >> ELSE <<>>
    IN  Ok(Map(kty \o key_id \o alg \o key_ops \o base_iv \o ParamEntries(k.params)))

CoseKey_to_cbor_value(k) ==
    LET kty     == <<KTY, RegisteredLabel_to_cbor_value(iana_KeyType, k.kty)>>
        key_id  == IF Len(k.key_id) # 0 THEN << <<KID, ByteString(k.key_id)>> >> ELSE <<>>
        alg     == IF Len(k.alg) # 0
                   THEN << <<ALG, RegisteredLabel_to_cbor_value(iana_Algorithm, k.alg[1])>> >>
                   ELSE <<>>
        key_ops == IF k.key_ops # {}
                   THEN << <<KEY_OPS, Array(KeyOpsArray(BTreeSet_iter(k.key_ops)))>> >>
                   ELSE <<>>
        base_iv == IF Len(k.base_iv) # 0 THEN << <<BASE_IV, ByteString(k.base_iv)>> >> ELSE <<>>
    IN  Ok(Map(<<kty>> \o key_id \o alg \o key_ops \o base_iv \o ParamEntries(k.params)))

----------------------------------------------------------------------------
(* CoseKeySet *)

\* The loop with the elements that fail to decode left out of the set.
RECURSIVE CoseKeySet_collect_skipping(_, _)
CoseKeySet_collect_skipping(keys, a) ==
    IF Len(a) = 0 THEN Ok(keys)
    ELSE LET r == CoseKey_from_cbor_value(Head(a))
         IN  IF r.ok THEN CoseKeySet_collect_skipping(Append(keys, r.val), Tail(a))
             ELSE CoseKeySet_collect_skipping(keys, Tail(a))

\* for v in a { keys.push(CoseKey::from_cbor_value(v)?); }
RECURSIVE CoseKeySet_collect(_, _)
CoseKeySet_collect(keys, a) ==
    IF Len(a) = 0 THEN Ok(keys)
    ELSE LET r == CoseKey_from_cbor_value(Head(a))
         IN  IF r.ok THEN CoseKeySet_collect(Append(keys, r.val), Tail(a)) ELSE r

CoseKeySet_from_cbor_value(value) ==
    IF value.kind = "Array" THEN CoseKeySet_collect(<<>>, value.items)
    ELSE cbor_type_error(value, "array")

\* for k in self.0 { arr.push(k.to_cbor_value()?); }
CoseKeySet_to_cbor_value(keys) ==
    Ok(Array([i \in 1..Len(keys) |-> CoseKey_to_cbor_value(keys[i]).val]))

----------------------------------------------------------------------------
(* CoseKeyBuilder *)

\* builder! {CoseKey}: new() is the Default of the wrapped CoseKey.
CoseKeyBuilder_new == CoseKey_default

new_ec2_pub_key_key(curve, x, y) ==
    [CoseKey_default EXCEPT
        !.kty = Assigned("EC2"),
        !.params =
            << <<Label_Int(to_i128(iana_Ec2KeyParameter, "Crv")),
                 Unsigned(to_i128(iana_EllipticCurve, curve))>>,
               <<Label_Int(to_i128(iana_Ec2KeyParameter, "X")), ByteString(x)>>,
               <<Label_Int(to_i128(iana_Ec2KeyParameter, "Y")), ByteString(y)>> >>]

new_ec2_pub_key_y_sign_key(curve, x, y_sign) ==
    [CoseKey_default EXCEPT
        !.kty = Assigned("EC2"),
        !.params =
            << <<Label_Int(to_i128(iana_Ec2KeyParameter, "Crv")),
                 Unsigned(to_i128(iana_EllipticCurve, curve))>>,
               <<Label_Int(to_i128(iana_Ec2KeyParameter, "X")), ByteString(x)>>,
               <<Label_Int(to_i128(iana_Ec2KeyParameter, "Y")),
                 IF y_sign THEN Simple("TrueValue") ELSE Simple("FalseValue")>> >>]

new_ec2_priv_key_key(curve, x, y, d) ==
    LET builder == new_ec2_pub_key_key(curve, x, y)
    IN  [builder EXCEPT
            !.params = Append(@, <<Label_Int(to_i128(iana_Ec2KeyParameter, "D")),
                                   ByteString(d)>>)]

new_symmetric_key_key(k) ==
    [CoseKey_default EXCEPT
        !.kty = Assigned("Symmetric"),
        !.params = << <<Label_Int(to_i128(iana_SymmetricKeyParameter, "K")),
                        ByteString(k)>> >>]

\* The guard takes the fixed labels 1..5 only and lets Reserved through.
param_panics_fixed_only(label) == label \in 1..5

\* The guard stops one short of BaseIv.
param_panics_below(label) == label \in 0..4

\* if iana::KeyParameter::from_i64(label).is_some() { panic!(...) }
param_panics(label) == Len(from_i128(iana_KeyParameter, label)) > 0

\* self.0.params.push((Label::Int(label), value))
param_push(k, label, value) ==
    [k EXCEPT !.params = Append(@, <<Label_Int(label), value>>)]

----------------------------------------------------------------------------
(* Bounds and input sets *)

MaxParams  == 2      \* param() calls made on one builder
MaxEntries == 3      \* entries of a map handed to from_cbor_value
PrivSpan   == 20     \* is_private is probed this far on either side of the threshold
RegSpan    == 12     \* from_i128 is probed this far on either side of zero
MaxKeys    == 3      \* elements of an array handed to CoseKeySet::from_cbor_value

KeyBytes    == {<<>>, <<1, 2>>}
CoordBytes  == {<<3>>}
Curves      == {"P_256"}
IdBytes     == {<<>>, <<1>>}
Algorithms  == {"ES256"}
KeyOps      == {"Sign", "Verify"}
ParamLabels == {-1, 0, 1, 2, 3, 4, 5, 6}
ParamValues == {Unsigned(1), ByteString(<<>>)}
KtyValues   == {Unsigned(1), Unsigned(99), TextString("a")}

NoValue  == [ok |-> FALSE, err |-> <<>>]
NoProbe  == [registry |-> "none", i |-> 0, private |-> FALSE]

----------------------------------------------------------------------------
(* Specification of the builder, followed by encode and decode *)

Init ==
    /\ phase = "start"
    /\ key = CoseKey_default
    /\ wire = NoValue
    /\ input = NoValue
    /\ res = NoValue
    /\ nparam = 0
    /\ probe = NoProbe

Construct(k) ==
    /\ phase = "start"
    /\ phase' = "building"
    /\ key' = k
    /\ UNCHANGED <<wire, input, res, nparam, probe>>

new == Construct(CoseKeyBuilder_new)

new_ec2_pub_key(curve, x, y) == Construct(new_ec2_pub_key_key(curve, x, y))

new_ec2_pub_key_y_sign(curve, x, y_sign) ==
    Construct(new_ec2_pub_key_y_sign_key(curve, x, y_sign))

new_ec2_priv_key(curve, x, y, d) == Construct(new_ec2_priv_key_key(curve, x, y, d))

new_symmetric_key(k) == Construct(new_symmetric_key_key(k))

Set(k) ==
    /\ phase = "building"
    /\ key' = k
    /\ UNCHANGED <<phase, wire, input, res, nparam, probe>>

\* builder_set! {key_id: Vec<u8>}
key_id(v) == Set([key EXCEPT !.key_id = v])

\* builder_set! {base_iv: Vec<u8>}
base_iv(v) == Set([key EXCEPT !.base_iv = v])

algorithm(alg) == Set([key EXCEPT !.alg = <<Assigned(alg)>>])

add_key_op(op) == Set([key EXCEPT !.key_ops = @ \cup {Assigned(op)}])

\* Assignment to the public field kty of a key whose kty is still the default,
\* with a value as the wrapper's decode yields it.
assign_kty(v) ==
    /\ key.kty = Assigned("Reserved")
    /\ Set([key EXCEPT !.kty = RegisteredLabel_from_cbor_value(iana_KeyType, v).val])

param(label, value) ==
    /\ phase = "building"
    /\ nparam < MaxParams
    /\ nparam' = nparam + 1
    /\ IF param_panics(label)
       THEN phase' = "panicked" /\ UNCHANGED key
       ELSE phase' = "building" /\ key' = param_push(key, label, value)
    /\ UNCHANGED <<wire, input, res, probe>>

\* build() followed by CoseKey::to_cbor_value
to_cbor_value ==
    /\ phase = "building"
    /\ phase' = "encoded"
    /\ wire' = CoseKey_to_cbor_value(key)
    /\ UNCHANGED <<key, input, res, nparam, probe>>

\* CoseKey::from_cbor_value on the value to_cbor_value returned
from_cbor_value ==
    /\ phase = "encoded"
    /\ wire.ok
    /\ phase' = "decoded"
    /\ input' = wire
    /\ res' = CoseKey_from_cbor_value(wire.val)
    /\ UNCHANGED <<key, wire, nparam, probe>>

Next ==
    \/ new
    \/ \E c \in Curves, x \in KeyBytes, y \in CoordBytes : new_ec2_pub_key(c, x, y)
    \/ \E c \in Curves, x \in KeyBytes, s \in BOOLEAN : new_ec2_pub_key_y_sign(c, x, s)
    \/ \E c \in Curves, x \in KeyBytes, y \in CoordBytes, d \in CoordBytes :
            new_ec2_priv_key(c, x, y, d)
    \/ \E k \in KeyBytes : new_symmetric_key(k)
    \/ \E v \in IdBytes : key_id(v)
    \/ \E v \in IdBytes : base_iv(v)
    \/ \E a \in Algorithms : algorithm(a)
    \/ \E op \in KeyOps : add_key_op(op)
    \/ \E v \in KtyValues : assign_kty(v)
    \/ \E l \in ParamLabels, v \in ParamValues : param(l, v)
    \/ to_cbor_value
    \/ from_cbor_value

Spec == Init /\ [][Next]_vars

----------------------------------------------------------------------------
(* Specification of decode on arbitrary maps, followed by re-encode *)

KtyWire    == {Unsigned(0), Unsigned(2), Unsigned(4), Unsigned(99)}
KidWire    == {ByteString(<<>>), ByteString(<<1>>), ByteString(<<2>>), Unsigned(2)}
AlgWire    == {Negative(-7), Unsigned(1)}
KeyOpsWire == {Array(<<>>), Array(<<Unsigned(1)>>), Array(<<Unsigned(2)>>),
               Array(<<Unsigned(1), Unsigned(1)>>), Array(<<Unsigned(2), Unsigned(1)>>),
               Unsigned(1)}
BaseIvWire == {ByteString(<<>>), ByteString(<<2>>), TextString("a")}
ParamWire  == {<<Negative(-1), Unsigned(1)>>, <<TextString("a"), ByteString(<<>>)>>,
               <<Unsigned(0), Unsigned(2)>>, <<ByteString(<<1>>), Unsigned(1)>>}

WireEntries ==
    ({KTY} \X KtyWire) \cup ({KID} \X KidWire) \cup ({ALG} \X AlgWire)
        \cup ({KEY_OPS} \X KeyOpsWire) \cup ({BASE_IV} \X BaseIvWire) \cup ParamWire

WireMaps == UNION {[1..n -> WireEntries] : n \in 0..MaxEntries}

NotMaps == {Unsigned(1), Array(<<>>)}

\* CoseKey::from_cbor_value on a value received from outside
from_cbor_value_of(v) ==
    /\ phase' = "received"
    /\ input' = Ok(v)
    /\ res' = CoseKey_from_cbor_value(v)
    /\ UNCHANGED <<key, wire, nparam, probe>>

receive_map == phase = "start" /\ \E m \in WireMaps : from_cbor_value_of(Map(m))

receive_other == phase = "start" /\ \E v \in NotMaps : from_cbor_value_of(v)

\* CoseKey::to_cbor_value on the key that decode returned
reencode ==
    /\ phase = "received"
    /\ res.ok
    /\ phase' = "reencoded"
    /\ key' = res.val
    /\ wire' = CoseKey_to_cbor_value(res.val)
    /\ UNCHANGED <<input, res, nparam, probe>>

\* Elements of a key set array: keys that decode, values that fail to decode
\* with three different errors.
SetElements ==
    {Map(<< <<KTY, Unsigned(2)>> >>),
     Map(<< <<KTY, Unsigned(4)>>, <<KID, ByteString(<<1>>)>> >>),
     Map(<< <<KTY, Unsigned(2)>>, <<KEY_OPS, Array(<<Unsigned(2), Unsigned(1)>>)>> >>),
     Map(<<>>),
     Map(<< <<KID, ByteString(<<>>)>> >>),
     Unsigned(1)}

SetArrays == UNION {[1..n -> SetElements] : n \in 0..MaxKeys}

NotArrays == {Unsigned(1), Map(<< <<KTY, Unsigned(2)>> >>), ByteString(<<>>)}

\* CoseKeySet::from_cbor_value on a value received from outside
set_from_cbor_value_of(v) ==
    /\ phase' = "set_received"
    /\ input' = Ok(v)
    /\ res' = CoseKeySet_from_cbor_value(v)
    /\ UNCHANGED <<key, wire, nparam, probe>>

receive_set == phase = "start" /\ \E a \in SetArrays : set_from_cbor_value_of(Array(a))

receive_set_other == phase = "start" /\ \E v \in NotArrays : set_from_cbor_value_of(v)

\* CoseKeySet::to_cbor_value on the key set that decode returned
reencode_set ==
    /\ phase = "set_received"
    /\ res.ok
    /\ phase' = "set_reencoded"
    /\ wire' = CoseKeySet_to_cbor_value(res.val)
    /\ UNCHANGED <<key, input, res, nparam, probe>>

NextDecode ==
    \/ receive_map
    \/ receive_other
    \/ reencode
    \/ receive_set
    \/ receive_set_other
    \/ reencode_set

SpecDecode == Init /\ [][NextDecode]_vars

----------------------------------------------------------------------------
(* Specification of the private-use predicates *)

PrivRegistries == {"HeaderParameter", "Algorithm", "EllipticCurve"}

PrivInputs ==
    ((-65536 - PrivSpan)..(-65536 + PrivSpan)) \cup {-1, 0, 1}

WithPrivateRange_is_private(registry, i) ==
    CASE registry = "HeaderParameter" -> HeaderParameter_is_private(i)
      [] registry = "Algorithm"       -> Algorithm_is_private(i)
      [] OTHER                        -> EllipticCurve_is_private(i)

is_private(registry, i) ==
    /\ probe' = [registry |-> registry, i |-> i,
                 private |-> WithPrivateRange_is_private(registry, i)]
    /\ UNCHANGED <<phase, key, wire, input, res, nparam>>

NextPrivate == \E r \in PrivRegistries, i \in PrivInputs : is_private(r, i)

SpecPrivate == Init /\ [][NextPrivate]_vars

----------------------------------------------------------------------------
(* Specification of the registry lookups *)

RegistryNames ==
    {"HeaderParameter", "HeaderAlgorithmParameter", "Algorithm", "KeyParameter",
     "OkpKeyParameter", "Ec2KeyParameter", "RsaKeyParameter", "SymmetricKeyParameter",
     "HssLmsKeyParameter", "WalnutDsaKeyParameter", "KeyType", "EllipticCurve",
     "KeyOperation", "CborTag", "CoapContentFormat"}

RegistryOf(r) ==
    CASE r = "HeaderParameter" -> iana_HeaderParameter
      [] r = "HeaderAlgorithmParameter" -> iana_HeaderAlgorithmParameter
      [] r = "Algorithm" -> iana_Algorithm
      [] r = "KeyParameter" -> iana_KeyParameter
      [] r = "OkpKeyParameter" -> iana_OkpKeyParameter
      [] r = "Ec2KeyParameter" -> iana_Ec2KeyParameter
      [] r = "RsaKeyParameter" -> iana_RsaKeyParameter
      [] r = "SymmetricKeyParameter" -> iana_SymmetricKeyParameter
      [] r = "HssLmsKeyParameter" -> iana_HssLmsKeyParameter
      [] r = "WalnutDsaKeyParameter" -> iana_WalnutDsaKeyParameter
      [] r = "KeyType" -> iana_KeyType
      [] r = "EllipticCurve" -> iana_EllipticCurve
      [] r = "KeyOperation" -> iana_KeyOperation
      [] r = "CborTag" -> iana_CborTag
      [] r = "CoapContentFormat" -> iana_CoapContentFormat

Constants(r) == {RegistryOf(r)[j][1] : j \in 1..Len(RegistryOf(r))}

Discriminants(r) == {RegistryOf(r)[j][2] : j \in 1..Len(RegistryOf(r))}

\* Integers handed to from_i128: around zero, and every discriminant with its
\* two neighbours.
RegInputs(r) ==
    ((-RegSpan)..RegSpan) \cup UNION {{v - 1, v, v + 1} : v \in Discriminants(r)}

\* c.to_i128()
to_i128_call ==
    /\ phase = "start"
    /\ \E r \in RegistryNames : \E c \in Constants(r) :
            probe' = [registry |-> r, i |-> to_i128(RegistryOf(r), c), private |-> FALSE,
                      constant |-> <<c>>, found |-> <<>>]
    /\ phase' = "to_i128"
    /\ UNCHANGED <<key, wire, input, res, nparam>>

\* T::from_i128(c.to_i128())
from_i128_back ==
    /\ phase = "to_i128"
    /\ probe' = [probe EXCEPT !.found = from_i128(RegistryOf(probe.registry), probe.i)]
    /\ phase' = "back"
    /\ UNCHANGED <<key, wire, input, res, nparam>>

\* T::from_i128(i)
from_i128_call ==
    /\ phase = "start"
    /\ \E r \in RegistryNames : \E i \in RegInputs(r) :
            probe' = [registry |-> r, i |-> i, private |-> FALSE,
                      constant |-> <<>>, found |-> from_i128(RegistryOf(r), i)]
    /\ phase' = "from_i128"
    /\ UNCHANGED <<key, wire, input, res, nparam>>

NextRegistry ==
    \/ to_i128_call
    \/ from_i128_back
    \/ from_i128_call

SpecRegistry == Init /\ [][NextRegistry]_vars


----------------------------------------------------------------------------
(* Properties of the builder, encode and decode *)

FixedLabels == {Label_Int(i) : i \in 1..5}

ParamLabelsOf(k) == {k.params[i][1] : i \in 1..Len(k.params)}

\* A validly constructed key: kty is set and no parameter uses a fixed label.
ValidKey(k) ==
    /\ k.kty # Assigned("Reserved")
    /\ ParamLabelsOf(k) \cap FixedLabels = {}

\* C1: decoding the encoding of a validly constructed key returns Ok of a key
\* equal to it in every field, the order of params included.
C1_RoundTrip ==
    (phase = "decoded" /\ ValidKey(key)) =>
        /\ res.ok
        /\ res.val.kty = key.kty
        /\ res.val.key_id = key.key_id
        /\ res.val.alg = key.alg
        /\ res.val.key_ops = key.key_ops
        /\ res.val.base_iv = key.base_iv
        /\ res.val.params = key.params

\* A symmetric key with every optional field set and two further parameters,
\* one of them repeating the label of k, has been encoded and decoded.
C1_Witness ==
    /\ phase = "decoded"
    /\ ValidKey(key)
    /\ key.kty = Assigned("Symmetric")
    /\ key.key_id # <<>> /\ key.base_iv # <<>> /\ key.alg # <<>>
    /\ Cardinality(key.key_ops) = 2
    /\ Len(key.params) = 3
    /\ key.params[3][1] = Label_Int(-1)

\* The entries of an encoded map, and the labels among them.
Entries(w) == w.val.entries

\* Number of fixed fields the encoding of k must hold.
FixedCount(k) ==
    1 + (IF k.key_id # <<>> THEN 1 ELSE 0) + (IF k.alg # <<>> THEN 1 ELSE 0)
      + (IF k.key_ops # {} THEN 1 ELSE 0) + (IF k.base_iv # <<>> THEN 1 ELSE 0)

\* C2: the encoding starts with label 1, holds labels 2..5 exactly for the
\* fields that are set, in increasing order, and ends with the params entries
\* in their stored order, values unchanged.
C2_CanonicalOrder ==
    phase = "encoded" =>
        LET m == Entries(wire)
            n == FixedCount(key)
            present(l) == \E i \in 1..n : m[i][1] = Unsigned(l)
        IN  /\ wire.ok
            /\ wire.val.kind = "Map"
            /\ Len(m) = n + Len(key.params)
            /\ m[1][1] = Unsigned(1)
            /\ \A i \in 1..n : m[i][1].kind = "Unsigned" /\ m[i][1].int \in 1..5
            /\ \A i \in 1..(n - 1) : m[i][1].int < m[i + 1][1].int
            /\ present(2) <=> key.key_id # <<>>
            /\ present(3) <=> key.alg # <<>>
            /\ present(4) <=> key.key_ops # {}
            /\ present(5) <=> key.base_iv # <<>>
            /\ \A i \in 1..Len(key.params) :
                /\ m[n + i][2] = key.params[i][2]
                /\ key.params[i][1].tag = "Int"
                /\ m[n + i][1].int = key.params[i][1].int
                /\ m[n + i][1].kind = IF key.params[i][1].int >= 0 THEN "Unsigned"
                                      ELSE "Negative"

\* A key with key_ops and base_iv but no key_id and no alg, and with two
\* parameters in descending label order, has been encoded.
C2_Witness ==
    /\ phase = "encoded"
    /\ key.key_id = <<>> /\ key.alg = <<>>
    /\ key.key_ops # {} /\ key.base_iv # <<>>
    /\ Len(key.params) = 2
    /\ key.params[1][1] = Label_Int(6)
    /\ key.params[2][1] = Label_Int(-1)

\* C8: param(label, value) aborts exactly for the labels 0..5; for any other
\* label it appends (Label::Int(label), value) and changes nothing else.
C8_BuilderGuard ==
    [][\A l \in ParamLabels, v \in ParamValues :
          param(l, v) =>
              IF l \in 0..5
              THEN phase' = "panicked"
              ELSE /\ phase' = "building"
                   /\ key'.params = Append(key.params, <<Label_Int(l), v>>)
                   /\ key'.kty = key.kty
                   /\ key'.key_id = key.key_id
                   /\ key'.alg = key.alg
                   /\ key'.key_ops = key.key_ops
                   /\ key'.base_iv = key.base_iv]_vars

\* A param call has appended an entry with label 6 and a later one has aborted.
C8_Witness ==
    /\ phase = "panicked"
    /\ nparam = 2
    /\ Len(key.params) > 0
    /\ key.params[Len(key.params)][1] = Label_Int(6)

\* C9: a key assembled by the builder has no parameter with a fixed label, and
\* its encoding holds each fixed label at most once.
C9_NoFixedLabelInParams ==
    /\ phase \in {"building", "encoded", "decoded"} =>
            ParamLabelsOf(key) \cap FixedLabels = {}
    /\ phase = "encoded" =>
            \A l \in 1..5 :
                Cardinality({i \in 1..Len(Entries(wire)) :
                                Entries(wire)[i][1] = Unsigned(l)}) <= 1

\* A private key with both param calls made and all fixed fields set has been
\* encoded.
C9_Witness ==
    /\ phase = "encoded"
    /\ nparam = 2
    /\ Len(key.params) = 6
    /\ FixedCount(key) = 5

----------------------------------------------------------------------------
(* Properties of decode on arbitrary maps *)

MapReceived == phase \in {"received", "reencoded"} /\ input.val.kind = "Map"

InputEntries == input.val.entries

HasLabel(m, l) == \E i \in 1..Len(m) : m[i][1] = l

IsEmptyBstr(v) == v.kind = "ByteString" /\ Len(v.bytes) = 0

Items(v) == {v.items[j] : j \in 1..Len(v.items)}

HasRepeat(v) ==
    v.kind = "Array" /\ \E i, j \in 1..Len(v.items) : i # j /\ v.items[i] = v.items[j]

\* An entry is individually valid when a map holding it alone passes the loop.
EntryValid(e) == DecodeEntries(CoseKey_default, <<e>>).ok

\* No operation occurs in two label-4 arrays of the map.
KeyOpsDisjoint(m) ==
    \A i, j \in 1..Len(m) :
        (i # j /\ m[i][1] = KEY_OPS /\ m[j][1] = KEY_OPS) =>
            Items(m[i][2]) \cap Items(m[j][2]) = {}

NoKtyLabel == UnexpectedType("no kty label", "mandatory kty label")

\* C3 as stated: a map without label 1 fails, with the missing-kty error when
\* every entry present is individually valid.
C3_Original ==
    (MapReceived /\ ~HasLabel(InputEntries, KTY)) =>
        /\ ~res.ok
        /\ (\A i \in 1..Len(InputEntries) : EntryValid(InputEntries[i])) =>
                res = NoKtyLabel

\* C3 (amended): a map without label 1 fails, with the missing-kty error when
\* every entry present is individually valid and no operation occurs in more
\* than one label-4 array; the result holds no key.
C3_MandatoryKty ==
    (MapReceived /\ ~HasLabel(InputEntries, KTY)) =>
        /\ ~res.ok
        /\ "val" \notin DOMAIN res
        /\ ( /\ \A i \in 1..Len(InputEntries) : EntryValid(InputEntries[i])
             /\ KeyOpsDisjoint(InputEntries) ) =>
                res = NoKtyLabel

\* A map of three valid entries, two of them label-4 arrays with different
\* operations and none of them label 1, has been refused for its missing kty.
C3_Witness ==
    /\ MapReceived
    /\ Len(InputEntries) = 3
    /\ ~HasLabel(InputEntries, KTY)
    /\ InputEntries[1] = <<KEY_OPS, Array(<<Unsigned(2)>>)>>
    /\ InputEntries[2] = <<KEY_OPS, Array(<<Unsigned(1)>>)>>
    /\ EntryValid(InputEntries[3])
    /\ res = NoKtyLabel

\* C4: a map with a zero-length byte string at label 2 or label 5 fails,
\* wherever the entry sits and whatever the other entries are.
C4_EmptyIdentifierRejected ==
    (MapReceived /\ \E i \in 1..Len(InputEntries) :
                        /\ InputEntries[i][1] \in {Unsigned(2), Unsigned(5)}
                        /\ IsEmptyBstr(InputEntries[i][2])) =>
        ~res.ok

\* A map with a valid kty first and an empty key_id last has been refused for
\* the empty byte string.
C4_Witness ==
    /\ MapReceived
    /\ Len(InputEntries) = 3
    /\ InputEntries[1] = <<Unsigned(1), Unsigned(2)>>
    /\ InputEntries[3] = <<Unsigned(2), ByteString(<<>>)>>
    /\ res = UnexpectedType("empty bstr", "non-empty bstr")

\* C5: a map with a zero-length array at label 4 fails, also when label 4
\* occurs more than once.
C5_EmptyKeyOpsRejected ==
    (MapReceived /\ \E i \in 1..Len(InputEntries) :
                        /\ InputEntries[i][1] = Unsigned(4)
                        /\ InputEntries[i][2].kind = "Array"
                        /\ Len(InputEntries[i][2].items) = 0) =>
        ~res.ok

\* C6: a map with a label-4 array that repeats an operation fails, with the
\* repeated-entry error when the entries before it decode without error; on
\* success key_ops holds exactly the values of the map's label-4 array.
C6_UniqueKeyOps ==
    MapReceived =>
        /\ \A i \in 1..Len(InputEntries) :
              (InputEntries[i][1] = Unsigned(4) /\ HasRepeat(InputEntries[i][2])) =>
                  /\ ~res.ok
                  /\ DecodeEntries(CoseKey_default, SubSeq(InputEntries, 1, i - 1)).ok =>
                        res = UnexpectedType("repeated array entry", "unique array label")
        /\ \A i \in 1..Len(InputEntries) :
              ( /\ res.ok
                /\ InputEntries[i][1] = Unsigned(4)
                /\ \A j \in 1..Len(InputEntries) :
                        InputEntries[j][1] = Unsigned(4) => j = i ) =>
                  {RegisteredLabel_to_cbor_value(iana_KeyOperation, op) :
                        op \in res.val.key_ops} = Items(InputEntries[i][2])

\* A map with a valid kty and key_id followed by a label-4 array that repeats
\* an operation has been refused for the repeated entry.
C6_Witness ==
    /\ MapReceived
    /\ InputEntries = << <<Unsigned(1), Unsigned(2)>>,
                         <<Unsigned(2), ByteString(<<1>>)>>,
                         <<Unsigned(4), Array(<<Unsigned(1), Unsigned(1)>>)>> >>
    /\ res = UnexpectedType("repeated array entry", "unique array label")

\* An integer that is no constant of the key-type registry.
UnregisteredKty(v) == IsInt(v) /\ v.int \notin 0..6

\* The value of the last entry with label 1.
LastKty(m) ==
    LET last == CHOOSE i \in 1..Len(m) :
                    m[i][1] = Unsigned(1) /\ \A j \in (i + 1)..Len(m) : m[j][1] # Unsigned(1)
    IN  m[last][2]

\* The map with every unregistered kty integer replaced by the registered EC2.
WithRegisteredKty(m) ==
    [i \in 1..Len(m) |->
        IF m[i][1] = Unsigned(1) /\ UnregisteredKty(m[i][2])
        THEN <<Unsigned(1), Unsigned(2)>> ELSE m[i]]

\* C7: an unregistered integer at label 1 is no decode error: the map decodes
\* exactly when it does with a registered key type in its place, the key keeps
\* the integer as the other variant, and re-encoding emits the same integer at
\* label 1.
C7_UnregisteredKtyKept ==
    (MapReceived /\ HasLabel(InputEntries, Unsigned(1))) =>
        /\ (\E i \in 1..Len(InputEntries) :
                InputEntries[i][1] = Unsigned(1) /\ UnregisteredKty(InputEntries[i][2])) =>
              LET r == CoseKey_from_cbor_value(Map(WithRegisteredKty(InputEntries)))
              IN  /\ res.ok <=> r.ok
                  /\ ~res.ok => res = r
        /\ (Len(InputEntries) = 1 /\ UnregisteredKty(InputEntries[1][2])) => res.ok
        /\ (res.ok /\ UnregisteredKty(LastKty(InputEntries))) =>
                /\ res.val.kty.tag = "Other"
                /\ res.val.kty.raw = LastKty(InputEntries)
        /\ (phase = "reencoded" /\ UnregisteredKty(LastKty(InputEntries))) =>
                /\ wire.ok
                /\ Entries(wire)[1] = <<Unsigned(1), LastKty(InputEntries)>>

\* A map whose kty is the unregistered 99, with two more entries, has been
\* decoded and encoded again.
C7_Witness ==
    /\ phase = "reencoded"
    /\ Len(InputEntries) = 3
    /\ InputEntries[2] = <<Unsigned(1), Unsigned(99)>>
    /\ key.kty = Other(Unsigned(99))
    /\ Entries(wire)[1] = <<Unsigned(1), Unsigned(99)>>

----------------------------------------------------------------------------
(* Properties of the private-use predicates *)

\* C10: for each registry with a private range, is_private(i) is true exactly
\* when i < -65536.
C10_PrivateBoundary ==
    probe.registry # "none" => (probe.private <=> probe.i < -65536)

\* is_private has answered true for -65537, the first private integer.
C10_Witness ==
    /\ probe.registry = "Algorithm"
    /\ probe.i = -65537
    /\ probe.private

----------------------------------------------------------------------------
(* Properties of the registry lookups *)

\* C11: within each registry to_i128 is injective and from_i128 is its partial
\* inverse: from_i128(to_i128(c)) = Some(c); from_i128(i) = Some(c) implies
\* to_i128(c) = i; from_i128(i) = None exactly when no constant has value i.
C11_RegistryMapping ==
    /\ phase = "to_i128" =>
            \A c \in Constants(probe.registry) \ {probe.constant[1]} :
                to_i128(RegistryOf(probe.registry), c) # probe.i
    /\ phase = "back" => probe.found = probe.constant
    /\ phase = "from_i128" =>
            /\ Len(probe.found) = 1 =>
                    /\ probe.found[1] \in Constants(probe.registry)
                    /\ to_i128(RegistryOf(probe.registry), probe.found[1]) = probe.i
            /\ Len(probe.found) = 0 <=> probe.i \notin Discriminants(probe.registry)
            /\ Len(probe.found) <= 1

\* The algorithm ES256 has been mapped to -7 and back.
C11_Witness ==
    /\ phase = "back"
    /\ probe.registry = "Algorithm"
    /\ probe.i = -7
    /\ probe.found = <<"ES256">>

----------------------------------------------------------------------------
(* Properties of the key set codec *)

ArrayReceived == phase \in {"set_received", "set_reencoded"} /\ input.val.kind = "Array"

\* The result of decoding element i of the received array as a key.
ElementResult(i) == CoseKey_from_cbor_value(input.val.items[i])

\* C12: key set decode returns the error of the first element that fails to
\* decode as a key and no key set; when none fails it returns the keys in
\* array order, as many as there are elements; encode emits one map per key
\* in sequence order.
C12_KeySetCodec ==
    ArrayReceived =>
        LET n == Len(input.val.items)
            failing == {i \in 1..n : ~ElementResult(i).ok}
        IN  /\ failing # {} =>
                    /\ res = ElementResult(CHOOSE i \in failing : \A j \in failing : i <= j)
                    /\ "val" \notin DOMAIN res
            /\ failing = {} =>
                    /\ res.ok
                    /\ Len(res.val) = n
                    /\ \A i \in 1..n : res.val[i] = ElementResult(i).val
            /\ phase = "set_reencoded" =>
                    /\ wire.ok
                    /\ wire.val.kind = "Array"
                    /\ Len(wire.val.items) = Len(res.val)
                    /\ \A i \in 1..Len(res.val) :
                            /\ wire.val.items[i].kind = "Map"
                            /\ CoseKey_from_cbor_value(wire.val.items[i]) = Ok(res.val[i])

\* An array of a key, a map with an empty key_id and a map without kty has
\* been refused for the empty key_id.
C12_Witness ==
    /\ ArrayReceived
    /\ Len(input.val.items) = 3
    /\ ElementResult(1).ok
    /\ input.val.items[2] = Map(<< <<KID, ByteString(<<>>)>> >>)
    /\ input.val.items[3] = Map(<<>>)
    /\ res = UnexpectedType("empty bstr", "non-empty bstr")

----------------------------------------------------------------------------
(* Properties of the order of key_ops *)

\* The operations of the label-4 arrays of a map, in wire order: the order in
\* which decode inserts them into key_ops.
RECURSIVE InsertionOrder(_)
InsertionOrder(m) ==
    IF Len(m) = 0 THEN <<>>
    ELSE (IF Head(m)[1] = Unsigned(4) THEN Head(m)[2].items ELSE <<>>)
            \o InsertionOrder(Tail(m))

\* The label-4 array of an encoded map.
EncodedKeyOps(w) ==
    LET i == CHOOSE j \in 1..Len(Entries(w)) : Entries(w)[j][1] = Unsigned(4)
    IN  Entries(w)[i][2].items

\* C13 as stated: the label-4 array of the encoding lists the operations in
\* the order in which they were inserted.
C13_Original ==
    (phase = "reencoded" /\ key.key_ops # {}) =>
        EncodedKeyOps(wire) = InsertionOrder(InputEntries)

\* C13 (amended): the label-4 array of the encoding lists the operations of
\* key_ops once each in ascending order, whatever the order of insertion.
C13_KeyOpsSorted ==
    (phase = "reencoded" /\ key.key_ops # {}) =>
        LET ops == EncodedKeyOps(wire)
        IN  /\ HasLabel(Entries(wire), Unsigned(4))
            /\ {ops[i] : i \in 1..Len(ops)} =
                    {InsertionOrder(InputEntries)[i] :
                        i \in 1..Len(InsertionOrder(InputEntries))}
            /\ \A i \in 1..Len(ops) : IsInt(ops[i])
            /\ \A i \in 1..(Len(ops) - 1) : ops[i].int < ops[i + 1].int

\* A key decoded from a map that lists Verify before Sign has been encoded
\* with Sign before Verify.
C13_Witness ==
    /\ phase = "reencoded"
    /\ InsertionOrder(InputEntries) = <<Unsigned(2), Unsigned(1)>>
    /\ EncodedKeyOps(wire) = <<Unsigned(1), Unsigned(2)>>

----------------------------------------------------------------------------
(* Properties of the order in which decode reports errors *)

\* The label is the unsigned integer n.
IsLabel(l, n) == l.kind = "Unsigned" /\ l.int = n

\* The operations of the label-4 arrays among the first n entries of a map.
EarlierKeyOps(m, n) ==
    UNION {Items(m[j][2]) : j \in {h \in 1..n : IsLabel(m[h][1], 4)}}

\* Entry i of the map violates a rule of the key format, given the entries
\* before it.
Violates(m, i) ==
    LET l == m[i][1]
        v == m[i][2]
    IN  CASE IsLabel(l, 2) \/ IsLabel(l, 5) ->
                v.kind # "ByteString" \/ Len(v.bytes) = 0
          [] IsLabel(l, 4) ->
                \/ v.kind # "Array"
                \/ HasRepeat(v)
                \/ Items(v) \cap EarlierKeyOps(m, i - 1) # {}
                \/ Items(v) \cup EarlierKeyOps(m, i - 1) = {}
          [] IsLabel(l, 1) \/ IsLabel(l, 3) -> FALSE
          [] OTHER -> ~IsInt(l) /\ l.kind # "TextString"

\* The error of the rule that entry i violates.
ViolationError(m, i) ==
    LET l == m[i][1]
        v == m[i][2]
    IN  CASE IsLabel(l, 2) \/ IsLabel(l, 5) ->
                IF v.kind # "ByteString" THEN UnexpectedType(TypeName(v), "bstr value")
                ELSE UnexpectedType("empty bstr", "non-empty bstr")
          [] IsLabel(l, 4) ->
                IF v.kind # "Array" THEN UnexpectedType(TypeName(v), "array value")
                ELSE IF Len(v.items) = 0
                     THEN UnexpectedType("empty array", "non-empty array")
                     ELSE UnexpectedType("repeated array entry", "unique array label")
          [] OTHER -> UnexpectedType(TypeName(l), "int/tstr")

\* The first entry that violates a rule, as a set: empty when there is none.
FirstViolation(m) ==
    {i \in 1..Len(m) : Violates(m, i) /\ \A j \in 1..(i - 1) : ~Violates(m, j)}

\* C14: decode returns the error of the first entry in wire order that
\* violates a rule, whatever follows that entry; the missing-kty error is
\* returned only when no entry violates a rule; a failing decode holds no key.
C14_FailFast ==
    MapReceived =>
        LET m     == InputEntries
            first == FirstViolation(m)
        IN  /\ \A i \in first :
                    /\ res = ViolationError(m, i)
                    /\ res = CoseKey_from_cbor_value(Map(SubSeq(m, 1, i)))
            /\ res = NoKtyLabel => first = {}
            /\ first = {} => (res.ok \/ res = NoKtyLabel)
            /\ ~res.ok => "val" \notin DOMAIN res

\* The map {2: empty bytes, 1: 4} has been refused for the empty key_id.
C14_Witness ==
    /\ MapReceived
    /\ InputEntries = << <<Unsigned(2), ByteString(<<>>)>>, <<Unsigned(1), Unsigned(4)>> >>
    /\ res = UnexpectedType("empty bstr", "non-empty bstr")

----------------------------------------------------------------------------
(* Properties of values of the wrong shape *)

\* Entry i of the map has a value, or a label, of the wrong shape.
ShapeMismatch(m, i) ==
    LET l == m[i][1]
        v == m[i][2]
    IN  CASE l \in {Unsigned(2), Unsigned(5)} -> v.kind # "ByteString"
          [] l = Unsigned(4)                  -> v.kind # "Array"
          [] l \in {Unsigned(1), Unsigned(3)} -> FALSE
          [] OTHER -> ~IsInt(l) /\ l.kind # "TextString"

\* What the rules on the entries of a key map expect.
EntryExpectations ==
    {"bstr value", "non-empty bstr", "array value", "non-empty array",
     "unique array label", "int/tstr"}

\* C15: key decode of a value that is not a map fails expecting "map"; a map
\* with a label-2 or label-5 value that is not a byte string, a label-4 value
\* that is not an array, or a non-fixed label that is neither integer nor
\* text fails with a type mismatch of an entry, the one of that entry when
\* no earlier entry violates a rule; key set decode of a value that is not an
\* array fails expecting "array"; no decode aborts.
C15_TypeMismatch ==
    /\ (phase \in {"received", "reencoded"} /\ input.val.kind # "Map") =>
            res = UnexpectedType(TypeName(input.val), "map")
    /\ MapReceived =>
            \A i \in 1..Len(InputEntries) :
                ShapeMismatch(InputEntries, i) =>
                    /\ ~res.ok
                    /\ res.err[2] \in EntryExpectations
                    /\ (\A j \in 1..(i - 1) : ~Violates(InputEntries, j)) =>
                            res = ViolationError(InputEntries, i)
    /\ (phase \in {"set_received", "set_reencoded"} /\ input.val.kind # "Array") =>
            res = UnexpectedType(TypeName(input.val), "array")
    /\ phase # "panicked"

\* A map whose label-4 value is an integer has been refused for that value.
C15_Witness ==
    /\ MapReceived
    /\ HasLabel(InputEntries, Unsigned(1))
    /\ \E i \in 1..Len(InputEntries) : InputEntries[i] = <<Unsigned(4), Unsigned(1)>>
    /\ res = UnexpectedType("uint", "array value")

----------------------------------------------------------------------------
(* Properties of every decoded key *)

FixedLabelValues == {Unsigned(i) : i \in 1..5}

\* The entries of a map whose label is none of the fixed ones, in wire order.
NonFixedEntries(m) == SelectSeq(m, LAMBDA e : e[1] \notin FixedLabelValues)

\* C16: a key returned by decode has a kty that is not Reserved, has no
\* parameter labelled 1..5, lists as params exactly the non-fixed entries of
\* the input in wire order with their values unchanged, and decoding its
\* encoding returns the same key again.
C16_DecodedKeyInvariant ==
    (MapReceived /\ res.ok) =>
        LET k  == res.val
            nf == NonFixedEntries(InputEntries)
        IN  /\ k.kty # Assigned("Reserved")
            /\ \A i \in 1..Len(k.params) :
                    Label_to_cbor_value(k.params[i][1]) \notin FixedLabelValues
            /\ Len(k.params) = Len(nf)
            /\ \A i \in 1..Len(nf) :
                    /\ Label_to_cbor_value(k.params[i][1]) = nf[i][1]
                    /\ k.params[i][2] = nf[i][2]
            /\ phase = "reencoded" =>
                    /\ wire.ok
                    /\ CoseKey_from_cbor_value(wire.val) = res

\* A key decoded from a map with two extension entries around a fixed one has
\* been encoded again.
C16_Witness ==
    /\ phase = "reencoded"
    /\ MapReceived
    /\ res.ok
    /\ Len(res.val.params) = 2
    /\ InputEntries[2][1] \in FixedLabelValues
    /\ res.val.params[1] # res.val.params[2]

----------------------------------------------------------------------------
(* Properties of fixed labels that a map repeats *)

\* The value of the last entry of the map that has the label.
LastValue(m, l) ==
    LET last == CHOOSE i \in 1..Len(m) :
                    m[i][1] = l /\ \A j \in (i + 1)..Len(m) : m[j][1] # l
    IN  m[last][2]

\* The label occurs more than once in the map.
Repeated(m, l) == Cardinality({i \in 1..Len(m) : m[i][1] = l}) > 1

----------------------------------------------------------------------------
(* Properties of the Reserved key type *)

\* C18: encode refuses no key; a key whose kty was left at the Reserved
\* default is encoded into a map that starts with label 1 = 0, and decode
\* refuses that map with the missing-kty error, the result it gives for the
\* same map without its label-1 entry.
C18_ReservedIsAbsent ==
    /\ phase \in {"encoded", "decoded"} => wire.ok
    /\ (phase \in {"encoded", "decoded"} /\ key.kty = Assigned("Reserved")) =>
            /\ Len(Entries(wire)) >= 1
            /\ Entries(wire)[1] = <<Unsigned(1), Unsigned(0)>>
    /\ (phase = "decoded" /\ key.kty = Assigned("Reserved")) =>
            /\ res = NoKtyLabel
            /\ res = CoseKey_from_cbor_value(Map(Tail(Entries(wire))))
    /\ (phase = "decoded" /\ ~res.ok) => key.kty = Assigned("Reserved")

\* A key started with new() and given a key_id only has been encoded and the
\* encoding refused.
C18_Witness ==
    /\ phase = "decoded"
    /\ key.kty = Assigned("Reserved")
    /\ key.key_id # <<>>
    /\ Len(Entries(wire)) = 2
    /\ res = NoKtyLabel

====
